---- MODULE Spec2Model ----
(***************************************************************************)
(* A model of the oauthclient trusted client (oauth.go, handler.go): the   *)
(* client's lifecycle (New, InitFlags, Configure, Run), the two grant      *)
(* flows, the authenticated caller `call` and the user operations built on *)
(* it.  The remote service is the environment: every request draws its     *)
(* outcome (a transport failure, or a status and a body) from Responses.   *)
(***************************************************************************)
EXTENDS Integers, Sequences, FiniteSets, TLC

VARIABLES
    clientConf,      \* oauth.clientConf: TokenURL, ClientID, ClientSecret, Scopes
    client,          \* oauth.client: "nil" or "ready" (*http.Client)
    flagsRegistered, \* InitFlags has bound the three flags to clientConf
    calls,           \* number of HTTP requests issued so far
    sent,            \* the last HTTP request issued
    ret,             \* what the last operation returned
    crashed          \* a nil dereference has panicked the calling goroutine

vars == <<clientConf, client, flagsRegistered, calls, sent, ret, crashed>>

\* ------------------------------------------------------------------ bounds

\* Requests one run may issue.
MaxCalls == 2

\* Optional fields one input DTO may have present (SpecForm).
MaxPresent == 2

\* ----------------------------------------------------------------- strings

\* strings.Replace(s, old, new, n) for a non-empty old: the first n
\* non-overlapping instances of old, left to right; all of them when n < 0.
RECURSIVE Replace(_, _, _, _)
Replace(s, old, new, n) ==
    IF n = 0 \/ Len(s) < Len(old) THEN s
    ELSE IF SubSeq(s, 1, Len(old)) = old
         THEN new \o Replace(SubSeq(s, Len(old) + 1, Len(s)), old, new,
                             IF n < 0 THEN n ELSE n - 1)
         ELSE SubSeq(s, 1, 1) \o Replace(SubSeq(s, 2, Len(s)), old, new, n)

\* strings.Count(s, sub) for a non-empty sub (non-overlapping instances).
RECURSIVE Count(_, _)
Count(s, sub) ==
    IF Len(s) < Len(sub) THEN 0
    ELSE IF SubSeq(s, 1, Len(sub)) = sub
         THEN 1 + Count(SubSeq(s, Len(sub) + 1, Len(s)), sub)
         ELSE Count(SubSeq(s, 2, Len(s)), sub)

\* The marker every resource operation replaces in the token URL.
Marker == "token"

\* The token URLs a client is constructed or flagged with: none, one with
\* the marker once, one without it, one with it twice.
TokenURLs ==
    { "", "https://x/oauth/token", "https://x/oauth", "https://token.x/token" }

\* The identifiers the operations are called with.
Ids == {"42"}

\* The resource paths of the operations: the literals, and the formatted
\* fmt.Sprintf("users/%s", uid), "users/%s/update" and so on.
ResourcePaths ==
    { "introspect", "find-user", "users", "users?type=gmail", "users?type=facebook",
      "users?type=account-kit" }
    \cup { "users/" \o id : id \in Ids }
    \cup { "users/" \o id \o suffix :
             id \in Ids, suffix \in {"/update", "/change-password", "/set-username-password"} }

\* strings.Replace(base, "token", path, -1) for every token URL and path.
DerivedURLs == [b \in TokenURLs, p \in ResourcePaths |-> Replace(b, Marker, p, -1)]

\* The URL a resource operation posts to:
\* strings.Replace(o.clientConf.TokenURL, "token", path, -1).
DeriveURL(base, path) == DerivedURLs[base, path]

\* -------------------------------------------------------------- url.Values

\* url.Values{}: no key.
EmptyValues == [k \in {} |-> <<>>]

\* url.Values.Add: appends the value to the key's list.
Add(vals, key, v) ==
    IF key \in DOMAIN vals
    THEN [vals EXCEPT ![key] = Append(@, v)]
    ELSE [k \in DOMAIN vals \cup {key} |-> IF k = key THEN <<v>> ELSE vals[k]]

\* `if p != nil { payload.Add(key, *p) }`: a pointer is <<>> (nil) or <<v>>.
AddIfSet(vals, key, p) == IF p # <<>> THEN Add(vals, key, p[1]) ELSE vals

\* A run of such conditional adds, in the order of the code.
RECURSIVE AddAll(_, _, _)
AddAll(vals, keys, dto) ==
    IF keys = <<>> THEN vals
    ELSE AddAll(AddIfSet(vals, Head(keys)[1], dto[Head(keys)[2]]), Tail(keys), dto)

\* -------------------------------------------------------------------- JSON

\* A JSON value of a member: absent, null, a number n, a string s, or an
\* object.  Of an object the model keeps what a Token reads from it: its
\* access token s and its is_new and has_username_password members.
JV(t, n, s, isNew, hup) == [t |-> t, n |-> n, s |-> s, isNew |-> isNew, hup |-> hup]
JAbsent == JV("absent", 0, "", FALSE, FALSE)
JNull == JV("null", 0, "", FALSE, FALSE)
JNum(n) == JV("num", n, "", FALSE, FALSE)
JStr(s) == JV("str", 0, s, FALSE, FALSE)
JObj(s, isNew, hup) == JV("obj", 0, s, isNew, hup)

\* A response body: no bytes, bytes that are not JSON, the JSON null, or a
\* JSON object with any of the members code, message, token, error.
Body(kind, code, message, token, error) ==
    [kind |-> kind, code |-> code, message |-> message, token |-> token,
     error |-> error]
EmptyBody == Body("empty", JAbsent, JAbsent, JAbsent, JAbsent)
GarbageBody == Body("garbage", JAbsent, JAbsent, JAbsent, JAbsent)
NullBody == Body("null", JAbsent, JAbsent, JAbsent, JAbsent)
ObjectBody(code, message, token, error) == Body("object", code, message, token, error)

\* json.Unmarshal's error for a target struct whose JSON members have the
\* types of schema (member -> "num", "str" or "obj"): a syntax error for
\* bytes that are not JSON, a type error for a member of another type.  null
\* decodes into anything, and members the struct does not have are skipped.
UnmarshalFails(body, schema) ==
    \/ body.kind \in {"empty", "garbage"}
    \/ /\ body.kind = "object"
       /\ \E k \in DOMAIN schema : body[k].t \notin {"absent", "null", schema[k]}

\* The value json.Unmarshal leaves in a field of the target: the member's,
\* or the field's zero value when the member is absent or null.
MemberNum(body, k) == IF body.kind = "object" /\ body[k].t = "num" THEN body[k].n ELSE 0
MemberStr(body, k) == IF body.kind = "object" /\ body[k].t = "str" THEN body[k].s ELSE ""
MemberSet(body, k) == body.kind = "object" /\ body[k].t = "obj"

\* ------------------------------------------------------------------ errors

Err(kind, status, message, key) ==
    [kind |-> kind, status |-> status, message |-> message, key |-> key]

\* A nil error.
NoErr == Err("nil", 0, "", "")

\* The error http.Client.PostForm returns: the request got no response.
TransportErr == Err("transport", 0, "", "")

\* The error json.Unmarshal returns, passed on as it is.
JSONErr == Err("json", 0, "", "")

\* sdkcm.ErrInvalidRequest(err): the grant flows' wrapping of a decode error.
ErrInvalidRequest == Err("InvalidRequest", 0, "", "")

\* sdkcm.NewAppErr(errors.New(msg), status, msg).
NewAppErr(status, msg) == Err("AppError", status, msg, "")

\* (*AppError).WithCode(code).
WithCode(e, code) == [e EXCEPT !.key = code]

\* The members json.Unmarshal reads into an sdkcm.AppError: the status from
\* "code", the message from "message".
AppErrorSchema == [code |-> "num", message |-> "str"]

\* The members json.Unmarshal reads into a TokenResponse {Token *Token;
\* Error string}: "token" and "error".
TokenResponseSchema == [token |-> "obj", error |-> "str"]

\* The members json.Unmarshal reads into FindUser's struct {Code int; User OAuthUser}.
FindUserSchema == [code |-> "num"]

\* Token, OAuthUser and TokenIntrospect have none of the members a modelled
\* body can carry at its top level.
ResultSchema == [k \in {} |-> ""]

\* --------------------------------------------------------------- responses

\* What a request comes back with: no response (ok = FALSE), or a status and
\* the bytes ioutil.ReadAll delivered.
Response(status, body) == [ok |-> TRUE, status |-> status, body |-> body]
NoResponse == [ok |-> FALSE, status |-> 0, body |-> EmptyBody]

Statuses == {200, 204, 300, 404}

Bodies ==
    { EmptyBody,
      GarbageBody,
      ObjectBody(JNum(404), JStr("not found"), JAbsent, JAbsent),
      ObjectBody(JAbsent, JAbsent, JAbsent, JStr("invalid_grant")),
      ObjectBody(JAbsent, JAbsent, JObj("at", TRUE, FALSE), JStr("")),
      ObjectBody(JAbsent, JAbsent, JNull, JStr("")) }

Responses == {NoResponse} \cup {Response(st, b) : st \in Statuses, b \in Bodies}

\* ------------------------------------------------------------------ values

\* A []byte: nil, or the bytes of a body.
NilBytes == [nil |-> TRUE, bytes |-> EmptyBody]
Bytes(b) == [nil |-> FALSE, bytes |-> b]

\* What an operation returns beside its error: nil, or a decoded object.
Value(kind, s, isNew, hup) ==
    [kind |-> kind, s |-> s, IsNew |-> isNew, HasUsernamePassword |-> hup]
NilValue == Value("nil", "", FALSE, FALSE)

\* The *Token json.Unmarshal leaves in TokenResponse.Token: nil unless the
\* envelope has a token object.
DecodedToken(body) ==
    IF MemberSet(body, "token")
    THEN Value("Token", body.token.s, body.token.isNew, body.token.hup)
    ELSE NilValue

\* ------------------------------------------------------------------- call

\* oauth.call with a slip: every status but 200 classified as a failure.
CallResult_Only200(r) ==
    IF ~r.ok THEN [out |-> NilBytes, err |-> TransportErr]
    ELSE IF r.status # 200
         THEN IF UnmarshalFails(r.body, AppErrorSchema)
              THEN [out |-> NilBytes, err |-> JSONErr]
              ELSE [out |-> NilBytes,
                    err |-> Err("AppError", MemberNum(r.body, "code"),
                                MemberStr(r.body, "message"), "")]
         ELSE [out |-> Bytes(r.body), err |-> NoErr]

\* oauth.call after PostForm has returned: the transport's error, or at a
\* status of 300 and above the body decoded as an AppError (or the error of
\* decoding it), or the body's bytes.
CallResult(r) ==
    IF ~r.ok THEN [out |-> NilBytes, err |-> TransportErr]
    ELSE IF r.status >= 300
         THEN IF UnmarshalFails(r.body, AppErrorSchema)
              THEN [out |-> NilBytes, err |-> JSONErr]
              ELSE [out |-> NilBytes,
                    err |-> Err("AppError", MemberNum(r.body, "code"),
                                MemberStr(r.body, "message"), "")]
         ELSE [out |-> Bytes(r.body), err |-> NoErr]

\* What an operation makes of call's result: the error, or the body decoded
\* into its result type (kind), or nothing for an operation that drops the body.
OpResult(c, kind, schema) ==
    IF c.err # NoErr THEN [value |-> NilValue, err |-> c.err]
    ELSE IF kind = "void" THEN [value |-> NilValue, err |-> NoErr]
    ELSE IF UnmarshalFails(c.out.bytes, schema)
         THEN [value |-> NilValue, err |-> JSONErr]
         ELSE [value |-> Value(kind, "", FALSE, FALSE), err |-> NoErr]

\* No call was made.
NoCall == [made |-> FALSE, out |-> NilBytes, err |-> NoErr]

\* No request was sent.
NoRequest == [url |-> "", form |-> EmptyValues, basicAuth |-> FALSE]

\* An operation without an input DTO.
NoDTO == [f \in {} |-> <<>>]

\* The record of an operation: its name and input DTO, the response its
\* request drew, what call returned to it, and what it returned (or that it
\* panicked).
Ret(op, dto, resp, c, value, err, panic) ==
    [op |-> op, dto |-> dto, resp |-> resp, call |-> c, value |-> value,
     err |-> err, panic |-> panic]

\* The body of a resource operation: post params to url through oauth.call
\* and return what OpResult makes of call's result.  A nil o.client panics in
\* PostForm before any request leaves.
CallOp(op, dto, url, params, r, kind, schema) ==
    /\ ~crashed
    /\ IF client = "nil"
       THEN /\ crashed' = TRUE
            /\ ret' = Ret(op, dto, NoResponse, NoCall, NilValue, NoErr, TRUE)
            /\ UNCHANGED <<calls, sent>>
       ELSE /\ calls < MaxCalls
            /\ calls' = calls + 1
            /\ sent' = [url |-> url, form |-> params, basicAuth |-> FALSE]
            /\ LET c == CallResult(r)
                   o == OpResult(c, kind, schema)
               IN  ret' = Ret(op, dto, r, [made |-> TRUE, out |-> c.out, err |-> c.err],
                              o.value, o.err, FALSE)
            /\ UNCHANGED crashed
    /\ UNCHANGED <<clientConf, client, flagsRegistered>>

\* ------------------------------------------------------------- grant flows

\* The password grant's error with the WithCode call left out.
PasswordGrantErr_Untagged(status, msg) == NewAppErr(status, msg)

\* The error the password grant returns for a status other than 200.
PasswordGrantErr(status, msg) ==
    WithCode(NewAppErr(status, msg), "wrong_username_password")

\* The refresh grant's error with the password grant's line copied whole.
RefreshGrantErr_Tagged(status, msg) ==
    WithCode(NewAppErr(status, msg), "wrong_username_password")

\* The error the refresh grant returns for a status other than 200.
RefreshGrantErr(status, msg) == NewAppErr(status, msg)

Outcome(value, err, panic) == [value |-> value, err |-> err, panic |-> panic]

\* PasswordCredentialsToken after End() has returned res and body, the
\* request's errors dropped: on a transport failure res is nil and body "".
\* The envelope is decoded first; then res.StatusCode is read; then the
\* token's two flags are written through t.Token, which is nil unless the
\* envelope had a token object.
PasswordResult(r) ==
    IF UnmarshalFails(r.body, TokenResponseSchema)
    THEN Outcome(NilValue, ErrInvalidRequest, FALSE)
    ELSE IF ~r.ok THEN Outcome(NilValue, NoErr, TRUE)
    ELSE IF r.status # 200
         THEN Outcome(NilValue, PasswordGrantErr(r.status, MemberStr(r.body, "error")), FALSE)
    ELSE IF DecodedToken(r.body) = NilValue THEN Outcome(NilValue, NoErr, TRUE)
    ELSE Outcome([DecodedToken(r.body) EXCEPT !.HasUsernamePassword = TRUE,
                                              !.IsNew = FALSE], NoErr, FALSE)

\* RefreshToken after End() has returned: as above, but the token is
\* returned as decoded (nil when the envelope had none).
RefreshResult(r) ==
    IF UnmarshalFails(r.body, TokenResponseSchema)
    THEN Outcome(NilValue, ErrInvalidRequest, FALSE)
    ELSE IF ~r.ok THEN Outcome(NilValue, NoErr, TRUE)
    ELSE IF r.status # 200
         THEN Outcome(NilValue, RefreshGrantErr(r.status, MemberStr(r.body, "error")), FALSE)
    ELSE Outcome(DecodedToken(r.body), NoErr, FALSE)

\* A request to the empty URL never leaves the host: it gets no response.
Reaches(url, r) == url = "" => r = NoResponse

\* A grant flow: one POST of form to the token URL with basic auth, through
\* a transport of its own (gorequest.New()), then the flow's result.
GrantOp(op, form, r, o) ==
    /\ ~crashed
    /\ calls < MaxCalls
    /\ Reaches(clientConf.TokenURL, r)
    /\ calls' = calls + 1
    /\ sent' = [url |-> clientConf.TokenURL, form |-> form, basicAuth |-> TRUE]
    /\ ret' = Ret(op, NoDTO, r, NoCall, o.value, o.err, o.panic)
    /\ crashed' = o.panic
    /\ UNCHANGED <<clientConf, client, flagsRegistered>>

PasswordCredentialsToken(username, password, r) ==
    GrantOp("PasswordCredentialsToken",
            [grant_type |-> <<"password">>, username |-> <<username>>,
             password |-> <<password>>, scope |-> clientConf.Scopes],
            r, PasswordResult(r))

RefreshToken(refreshToken, r) ==
    GrantOp("RefreshToken",
            [grant_type |-> <<"refresh_token">>, refresh_token |-> <<refreshToken>>,
             scope |-> clientConf.Scopes],
            r, RefreshResult(r))

\* RevokeToken made to post the token to a revoke endpoint.
RevokeToken_Remote(token) ==
    /\ ~crashed
    /\ calls < MaxCalls
    /\ calls' = calls + 1
    /\ sent' = [url |-> clientConf.TokenURL, form |-> [token |-> <<token>>],
                basicAuth |-> TRUE]
    /\ ret' = Ret("RevokeToken", NoDTO, NoResponse, NoCall, NilValue, NoErr, FALSE)
    /\ UNCHANGED <<clientConf, client, flagsRegistered, crashed>>

\* RevokeToken: returns nil.
RevokeToken(token) ==
    /\ ~crashed
    /\ ret' = Ret("RevokeToken", NoDTO, NoResponse, NoCall, NilValue, NoErr, FALSE)
    /\ UNCHANGED <<clientConf, client, flagsRegistered, calls, sent, crashed>>

\* --------------------------------------------------------------- lifecycle

\* New(name, clientConf): the configuration as given, no transport.
Init ==
    /\ clientConf \in [TokenURL : TokenURLs, ClientID : {"id"},
                       ClientSecret : {"secret"}, Scopes : {<<"read">>}]
    /\ client = "nil"
    /\ flagsRegistered = FALSE
    /\ calls = 0
    /\ sent = NoRequest
    /\ ret = Ret("New", NoDTO, NoResponse, NoCall, NilValue, NoErr, FALSE)
    /\ crashed = FALSE

\* InitFlags: binds <name>-client-secret, -client-id and -token-url to the
\* three fields, each flag's default the field's current value.
InitFlags ==
    /\ ~crashed
    /\ ~flagsRegistered
    /\ flagsRegistered' = TRUE
    /\ UNCHANGED <<clientConf, client, calls, sent, ret, crashed>>

\* The host's flag.Parse writing a command line's values through the
\* pointers InitFlags registered.
ParseFlags(secret, id, tokenURL) ==
    /\ ~crashed
    /\ flagsRegistered
    /\ clientConf' = [clientConf EXCEPT !.ClientSecret = secret, !.ClientID = id,
                                        !.TokenURL = tokenURL]
    /\ clientConf' # clientConf
    /\ UNCHANGED <<client, flagsRegistered, calls, sent, ret, crashed>>

\* The transport Configure leaves in o.client: none for an empty token URL.
ConfiguredClient(conf, old) == IF conf.TokenURL = "" THEN old ELSE "ready"

ConfigureAs(op) ==
    /\ ~crashed
    /\ client' = ConfiguredClient(clientConf, client)
    /\ ret' = Ret(op, NoDTO, NoResponse, NoCall, NilValue, NoErr, FALSE)
    /\ UNCHANGED <<clientConf, flagsRegistered, calls, sent, crashed>>

Configure == ConfigureAs("Configure")

\* Run: return o.Configure().
Run == ConfigureAs("Run")

\* ---------------------------------------------------- resource operations

\* A resource operation: derive its URL from the token URL, then CallOp.
Resource(op, dto, path, params, r, kind, schema) ==
    /\ Reaches(DeriveURL(clientConf.TokenURL, path), r)
    /\ CallOp(op, dto, DeriveURL(clientConf.TokenURL, path), params, r, kind, schema)

Introspect(token, r) ==
    Resource("Introspect", NoDTO, "introspect", [token |-> <<token>>, scope |-> <<>>],
             r, "TokenIntrospect", ResultSchema)

FindUserById(uid, r) ==
    Resource("FindUserById", NoDTO, "users/" \o uid, EmptyValues, r, "OAuthUser", ResultSchema)

FilterFields == {"Username", "Email", "FBId", "Phone", "PhonePrefix"}

FindUserPayload(filter) ==
    AddAll(EmptyValues,
           << <<"username", "Username">>, <<"email", "Email">>, <<"fb_id", "FBId">>,
              <<"phone", "Phone">>, <<"phone_prefix", "PhonePrefix">> >>,
           filter)

FindUser(filter, r) ==
    Resource("FindUser", filter, "find-user", FindUserPayload(filter), r, "OAuthUser",
             FindUserSchema)

CreateFields == {"Username", "Password", "Email", "PhonePrefix", "Phone", "ClientId"}

CreateUserPayload(user) ==
    AddAll(EmptyValues,
           << <<"username", "Username">>, <<"password", "Password">>,
              <<"email", "Email">>, <<"phone_prefix", "PhonePrefix">>,
              <<"phone", "Phone">>, <<"client_id", "ClientId">> >>,
           user)

CreateUser(user, r) ==
    Resource("CreateUser", user, "users", CreateUserPayload(user), r, "Token", ResultSchema)

CreateUserWithEmail(email, r) ==
    Resource("CreateUserWithEmail", NoDTO, "users?type=gmail", [email |-> <<email>>],
             r, "Token", ResultSchema)

CreateUserWithFacebook(fbId, email, r) ==
    Resource("CreateUserWithFacebook", NoDTO, "users?type=facebook",
             [fb_id |-> <<fbId>>, email |-> <<email>>], r, "Token", ResultSchema)

CreateUserWithAccountKit(akId, email, prefix, phone, r) ==
    Resource("CreateUserWithAccountKit", NoDTO, "users?type=account-kit",
             [ak_id |-> <<akId>>, email |-> <<email>>, phone_prefix |-> <<prefix>>,
              phone |-> <<phone>>], r, "Token", ResultSchema)

UpdateFields ==
    {"Username", "FirstName", "LastName", "Gender", "Address", "Password", "Email",
     "PhonePrefix", "Phone", "PasswordConfirmation", "DobString", "FBId", "AKId",
     "AccountType"}

UpdateUserPayload(uid, update) ==
    AddAll([user_id |-> <<uid>>],
           << <<"username", "Username">>, <<"first_name", "FirstName">>,
              <<"last_name", "LastName">>, <<"gender", "Gender">>,
              <<"address", "Address">>, <<"password", "Password">>,
              <<"email", "Email">>, <<"phone_prefix", "PhonePrefix">>,
              <<"phone", "Phone">>, <<"password", "Password">>,
              <<"password_confirmation", "PasswordConfirmation">>,
              <<"dob", "DobString">>, <<"fb_id", "FBId">>, <<"ak_id", "AKId">>,
              <<"account_type", "AccountType">> >>,
           update)

UpdateUser(uid, update, r) ==
    Resource("UpdateUser", update, "users/" \o uid \o "/update", UpdateUserPayload(uid, update),
             r, "void", ResultSchema)

ChangePassword(userId, oldPass, newPass, r) ==
    Resource("ChangePassword", NoDTO, "users/" \o userId \o "/change-password",
             [old_password |-> <<oldPass>>, new_password |-> <<newPass>>],
             r, "void", ResultSchema)

SetUsernamePassword(userId, username, password, r) ==
    Resource("SetUsernamePassword", NoDTO, "users/" \o userId \o "/set-username-password",
             [username |-> <<username>>, password |-> <<password>>],
             r, "void", ResultSchema)

DeleteUser(userId, r) ==
    Resource("DeleteUser", NoDTO, "users/" \o userId, EmptyValues, r, "void", ResultSchema)

GetUser(userId, r) ==
    Resource("GetUser", NoDTO, "users/" \o userId, EmptyValues, r, "void", ResultSchema)

\* ------------------------------------------------------------------ inputs

Names == {"bob"}
Secrets == {"pw"}
Mails == {"b@x"}
FieldValues == {"", "v"}

\* The input DTOs over fields with the fields of P present.
DTOsWith(fields, P) ==
    { [f \in fields |-> IF f \in P THEN <<v[f]>> ELSE <<>>] : v \in [P -> FieldValues] }

\* The input DTOs with at most k fields present.
DTOs(fields, k) ==
    UNION { DTOsWith(fields, P) : P \in {Q \in SUBSET fields : Cardinality(Q) <= k} }

\* The DTO with no field present and the one with every field set to "v".
Extremes(fields) == { [f \in fields |-> <<>>], [f \in fields |-> <<"v">>] }

\* The fields of a DTO that are present.
Present(dto) == {f \in DOMAIN dto : dto[f] # <<>>}

\* ------------------------------------------------------------------- specs

Next ==
    \/ InitFlags
    \/ \E u \in TokenURLs : ParseFlags("secret", "id", u)
    \/ Configure
    \/ Run
    \/ \E t \in Secrets : RevokeToken(t)
    \/ \E r \in Responses :
        \/ \E u \in Names, p \in Secrets : PasswordCredentialsToken(u, p, r)
        \/ \E t \in Secrets : RefreshToken(t, r)
        \/ \E t \in Secrets : Introspect(t, r)
        \/ \E id \in Ids : FindUserById(id, r)
        \/ \E f \in Extremes(FilterFields) : FindUser(f, r)
        \/ \E c \in Extremes(CreateFields) : CreateUser(c, r)
        \/ \E m \in Mails : CreateUserWithEmail(m, r)
        \/ \E id \in Ids, m \in Mails : CreateUserWithFacebook(id, m, r)
        \/ \E id \in Ids, m \in Mails : CreateUserWithAccountKit(id, m, "84", "0900", r)
        \/ \E id \in Ids, d \in Extremes(UpdateFields) : UpdateUser(id, d, r)
        \/ \E id \in Ids, p \in Secrets : ChangePassword(id, p, "new", r)
        \/ \E id \in Ids, n \in Names, p \in Secrets : SetUsernamePassword(id, n, p, r)
        \/ \E id \in Ids : DeleteUser(id, r)
        \/ \E id \in Ids : GetUser(id, r)

Spec == Init /\ [][Next]_vars

\* The form-building operations over every input DTO with at most MaxPresent
\* fields present, against a service that answers 200 and null.
FormResponses == {Response(200, NullBody)}

NextForm ==
    \/ Configure
    \/ \E r \in FormResponses :
        \/ \E f \in DTOs(FilterFields, MaxPresent) : FindUser(f, r)
        \/ \E c \in DTOs(CreateFields, MaxPresent) : CreateUser(c, r)
        \/ \E id \in Ids, d \in DTOs(UpdateFields, MaxPresent) : UpdateUser(id, d, r)

SpecForm == Init /\ [][NextForm]_vars

\* ------------------------------------------------------------------ claims

\* The last operation issued a request that drew a response.
Answered == ret.resp.ok

\* The body of the last response decodes as the grant envelope.
EnvelopeDecodes == ~UnmarshalFails(ret.resp.body, TokenResponseSchema)

Tag == "wrong_username_password"

\* C1: whenever call receives a status of 300 or more, it returns no bytes,
\* and either the error of decoding the body or an AppError whose status is
\* the response's HTTP status and whose message is the body's.
C1_RemoteErrorCarriesHTTPStatus ==
    (ret.call.made /\ Answered /\ ret.resp.status >= 300) =>
        /\ ret.call.out = NilBytes
        /\ IF UnmarshalFails(ret.resp.body, AppErrorSchema)
           THEN ret.call.err = JSONErr
           ELSE /\ ret.call.err.kind = "AppError"
                /\ ret.call.err.status = ret.resp.status
                /\ ret.call.err.message = MemberStr(ret.resp.body, "message")

\* C2: whenever call receives a status in [200, 300), whatever the body, it
\* returns the body's bytes as they are and a nil error.
C2_SuccessReturnsRawBody ==
    (ret.call.made /\ Answered /\ ret.resp.status >= 200 /\ ret.resp.status < 300) =>
        /\ ret.call.out = Bytes(ret.resp.body)
        /\ ret.call.err = NoErr

\* call has returned the empty body of a 204, and the bytes of a 2xx body
\* that is not JSON.
C2_Witness ==
    /\ ret.call.made /\ Answered
    /\ \/ ret.resp.status = 204 /\ ret.resp.body = EmptyBody
       \/ ret.resp.status = 200 /\ ret.resp.body = GarbageBody
    /\ ret.call.out = Bytes(ret.resp.body)

\* C3 as stated: every password-grant response with a status other than 200
\* yields no token and an AppError with the response's status, the
\* envelope's error as message, and the tag wrong_username_password.
C3_EveryNon200IsTagged ==
    (ret.op = "PasswordCredentialsToken" /\ Answered /\ ret.resp.status # 200) =>
        /\ ~ret.panic
        /\ ret.value = NilValue
        /\ ret.err = Err("AppError", ret.resp.status, MemberStr(ret.resp.body, "error"), Tag)

\* C3 as amended: a password-grant response with a status other than 200
\* yields no token and, when its body decodes as the envelope, the tagged
\* AppError of C3; when the body does not decode, ErrInvalidRequest.
C3_Non200DecodedIsTagged ==
    (ret.op = "PasswordCredentialsToken" /\ Answered /\ ret.resp.status # 200) =>
        /\ ~ret.panic
        /\ ret.value = NilValue
        /\ ret.err = IF EnvelopeDecodes
                     THEN Err("AppError", ret.resp.status,
                              MemberStr(ret.resp.body, "error"), Tag)
                     ELSE ErrInvalidRequest

\* The password grant has returned the tagged error for a 404 whose body is
\* {"error":"invalid_grant"}.
C3_Witness ==
    /\ ret.op = "PasswordCredentialsToken" /\ Answered
    /\ ret.resp.status = 404
    /\ ret.resp.body.error = JStr("invalid_grant")
    /\ ret.err = Err("AppError", 404, "invalid_grant", Tag)

\* C4: every password-grant response with status 200 whose body decodes as
\* the envelope yields a Token with HasUsernamePassword set and IsNew
\* cleared, and a nil error.
C4_Status200YieldsToken ==
    (ret.op = "PasswordCredentialsToken" /\ Answered /\ ret.resp.status = 200
        /\ EnvelopeDecodes) =>
        /\ ~ret.panic
        /\ ret.value.kind = "Token"
        /\ ret.value.HasUsernamePassword
        /\ ~ret.value.IsNew
        /\ ret.err = NoErr

\* C5 as stated: no error of RefreshToken carries the tag, and every
\* response with a status other than 200 yields no token and an AppError of
\* the response's status and the envelope's error.
C5_EveryNon200IsUntagged ==
    ret.op = "RefreshToken" =>
        /\ ret.err.key # Tag
        /\ (Answered /\ ret.resp.status # 200) =>
              /\ ret.value = NilValue
              /\ ret.err = Err("AppError", ret.resp.status,
                               MemberStr(ret.resp.body, "error"), "")

\* C5 as amended: no error of RefreshToken carries the tag, and a response
\* with a status other than 200 yields no token and, when its body decodes
\* as the envelope, the untagged AppError of C5; when the body does not
\* decode, ErrInvalidRequest.
C5_Non200DecodedIsUntagged ==
    ret.op = "RefreshToken" =>
        /\ ret.err.key # Tag
        /\ (Answered /\ ret.resp.status # 200) =>
              /\ ~ret.panic
              /\ ret.value = NilValue
              /\ ret.err = IF EnvelopeDecodes
                           THEN Err("AppError", ret.resp.status,
                                    MemberStr(ret.resp.body, "error"), "")
                           ELSE ErrInvalidRequest

\* The refresh grant has returned an untagged AppError for a 404 whose body
\* is {"error":"invalid_grant"}.
C5_Witness ==
    /\ ret.op = "RefreshToken" /\ Answered
    /\ ret.resp.status = 404
    /\ ret.resp.body.error = JStr("invalid_grant")
    /\ ret.err = Err("AppError", 404, "invalid_grant", "")

\* C6: a step that issues a request which gets no response issues exactly
\* one, does not panic, and returns the transport's error, which is neither
\* a decode error nor an AppError.
C6_TransportFailureSurfaces ==
    [][(calls' # calls /\ ~ret'.resp.ok) =>
          /\ calls' = calls + 1
          /\ ~ret'.panic
          /\ ret'.err = TransportErr]_vars

\* The base with its one marker replaced by path.
ReplacedOnce(base, path) ==
    LET i == CHOOSE j \in 1..Len(base) : SubSeq(base, j, j + Len(Marker) - 1) = Marker
    IN  SubSeq(base, 1, i - 1) \o path \o SubSeq(base, i + Len(Marker), Len(base))

\* C7: a resource operation sends no request when the token URL lacks the
\* marker, and with the marker there once it posts to the token URL with
\* the marker replaced by one of the resource paths.
C7_MarkerlessBaseFails ==
    [][(calls' # calls /\ ret'.call.made) =>
          /\ Count(clientConf.TokenURL, Marker) > 0
          /\ Count(clientConf.TokenURL, Marker) = 1 =>
                \E p \in ResourcePaths : sent'.url = ReplacedOnce(clientConf.TokenURL, p)]_vars

\* The form key of each DTO field.
FormKey ==
    [Username |-> "username", Password |-> "password", Email |-> "email",
     PhonePrefix |-> "phone_prefix", Phone |-> "phone", ClientId |-> "client_id",
     FBId |-> "fb_id", FirstName |-> "first_name", LastName |-> "last_name",
     Gender |-> "gender", Address |-> "address",
     PasswordConfirmation |-> "password_confirmation", DobString |-> "dob",
     AKId |-> "ak_id", AccountType |-> "account_type"]

\* C8: the form FindUser, CreateUser and UpdateUser send has, beside
\* UpdateUser's user_id, exactly one key for each present field of the input
\* DTO, with exactly that field's value, and no key for an absent field.
C8_FormHasExactlyPresentFields ==
    (ret.op \in {"FindUser", "CreateUser", "UpdateUser"} /\ ret.call.made) =>
        /\ DOMAIN sent.form \ {"user_id"} = {FormKey[f] : f \in Present(ret.dto)}
        /\ \A f \in Present(ret.dto) : sent.form[FormKey[f]] = <<ret.dto[f][1]>>

\* C9: a RevokeToken step returns a nil error, issues no request, and leaves
\* the configuration, the transport and the request record as they were.
C9_RevokeTokenIsNoOp ==
    [][(ret'.op = "RevokeToken" /\ ret' # ret) =>
          /\ ret'.err = NoErr
          /\ ~ret'.panic
          /\ calls' = calls
          /\ sent' = sent
          /\ clientConf' = clientConf
          /\ client' = client
          /\ crashed' = crashed]_vars

\* RevokeToken has returned in a configured client after a request.
C9_Witness ==
    /\ ret.op = "RevokeToken"
    /\ ret.err = NoErr
    /\ client = "ready"
    /\ calls > 0

\* C10: once Configure or Run has returned a nil error the client holds a
\* transport, and the operation that follows does not panic.
C10_ConfiguredClientHasTransport ==
    [][(ret.op \in {"Configure", "Run"} /\ ret.err = NoErr) =>
          /\ client = "ready"
          /\ ~crashed']_vars

====
